---- MODULE Spec2Model ----
(***************************************************************************)
(* Model of two parts of the ficus bootstrap runtime:                      *)
(*                                                                         *)
(*   - Hashmap.index_t (src/compiler/bootstrap/Hashmap.c): a tagged union  *)
(*     over three reference-counted arrays (IndexByte, IndexWord,          *)
(*     IndexLarge) with makeindex, size, get, set and copy, together with  *)
(*     the generated copy and free helpers of the type;                    *)
(*   - fx_fgets (src/runtime/ficus/impl/file.impl.h): the line reader      *)
(*     with its growing buffer.                                            *)
(*                                                                         *)
(* The two parts share no state.  Spec is the specification of the index   *)
(* container, FgetsSpec the one of the line reader.                        *)
(*                                                                         *)
(* Arrays live on a heap of reference-counted blocks.  The cells of a      *)
(* block are kept as a value `fill` held by every cell but those listed in *)
(* `over` (cell index -> value): an array of 65537 cells of which two were *)
(* written is one fill value and two entries.  Cell(h, arr, i) reads cell  *)
(* i, PutCell writes it and keeps the representation canonical, so two     *)
(* blocks are equal exactly when they agree cell by cell.                  *)
(***************************************************************************)
EXTENDS Integers, Sequences, FiniteSets, TLC

VARIABLES
    heap,     \* block address -> [refs, elemsize, fill, over]; refs = 0: not allocated
    idx,      \* the containers of the caller: slot -> [tag, u]
    res,      \* the int_ result location of the last call: [written, value]
    last,     \* the last call: [op, slot, dst, i, v, status]
    dup,      \* <<a, b>> while b is a live duplicate made by copy(a); <<>> otherwise
    stream,   \* fx_fgets: the characters of the file
    pos,      \* fx_fgets: the read position of the file
    pos0,     \* fx_fgets: the read position when fx_fgets was called
    pc,       \* fx_fgets: "idle", "call", "loop", "exit", "done"
    bufsz,    \* fx_fgets: size of the current buffer
    bufofs,   \* fx_fgets: write offset in the current buffer
    buf,      \* fx_fgets: the bytes written to the current buffer, from offset 0
    onheap,   \* fx_fgets: buf # buf0
    cap,      \* fx_fgets: the bytes of the buffer buf points to
    blocks,   \* fx_fgets: number of heap buffers currently allocated
    frees,    \* fx_fgets: [alloc, freed, double]: heap buffers obtained, released, and
              \* releases of a buffer that is not allocated
    fstatus,  \* fx_fgets: fx_status
    str       \* fx_fgets: the string handed back, <<>> until written

hvars == <<heap, idx, res, last, dup>>
fvars == <<stream, pos, pos0, pc, bufsz, bufofs, buf, onheap, cap, blocks, frees, fstatus,
          str>>
vars == <<heap, idx, res, last, dup, stream, pos, pos0, pc, bufsz, bufofs, buf, onheap,
          cap, blocks, frees, fstatus, str>>

----------------------------------------------------------------------------
(* Bounds of the model *)

\* number of array blocks the heap can hold; fx_make_arr fails when all are in use
MaxArrs == 3

\* the containers of the caller
Slots == {"a", "b"}
\* the sizes makeindex is called with: both sides of each tier bound, and a negative one
Sizes == {-1, 0, 1, 256, 257, 65536, 65537}
\* the values set is called with: a negative one, and one that fits neither 8 nor 16 bits
Values == {-1, 70000}
\* what a freshly allocated, unwritten cell may hold
Garbage == {0, 170}
\* the indices get and set are called with, for an array of n cells
Probes(n) == {-1, 0, n - 1, n}

----------------------------------------------------------------------------
(* The runtime's status codes, as the sources name them *)

FX_OK == "FX_OK"
FX_EXN_NoMatchError == "FX_EXN_NoMatchError"
FX_EXN_OutOfRangeError == "FX_EXN_OutOfRangeError"
FX_EXN_OutOfMemError == "FX_EXN_OutOfMemError"
FX_EXN_SizeError == "FX_EXN_SizeError"
FX_EXN_IOError == "FX_EXN_IOError"
\* the helpers of the type return void: they have no status to fail with
NoStatus == "void"

----------------------------------------------------------------------------
(* fx_arr_t and the heap *)

Addrs == 1..MaxArrs
NoCells == [j \in {} |-> 0]
\* fx_arr_t v = {0}: no block, no cells
fx_arr_t0 == [rc |-> 0, size |-> 0]
FreeBlock == [refs |-> 0, elemsize |-> 0, fill |-> 0, over |-> NoCells]
\* struct _fx_N16Hashmap__index_t zero-initialised, or after its free helper
index_t0 == [tag |-> 0, u |-> fx_arr_t0]

FreeAddrs(h) == {a \in Addrs : h[a].refs = 0}
LeastFree(h) == CHOOSE a \in FreeAddrs(h) : \A b \in FreeAddrs(h) : a <= b

\* FX_ARR_SIZE(arr, 0)
FX_ARR_SIZE(arr) == arr.size

\* FX_CHKIDX1(arr, 0, i): 0 <= i < size, as one unsigned comparison
FX_CHKIDX1(arr, i) == 0 <= i /\ i < arr.size

\* *FX_PTR_1D(T, arr, i): the cell's content
Cell(h, arr, i) ==
    LET b == h[arr.rc]
    IN  IF i \in DOMAIN b.over THEN b.over[i] ELSE b.fill

PutCell(h, arr, i, x) ==
    LET b == h[arr.rc]
        o == IF x = b.fill
             THEN [j \in DOMAIN b.over \ {i} |-> b.over[j]]
             ELSE [j \in DOMAIN b.over \cup {i} |-> IF j = i THEN x ELSE b.over[j]]
    IN  [h EXCEPT ![arr.rc].over = o]

\* fx_make_arr(1, {size}, elemsize, 0, 0, 0, &arr): a fresh block with one
\* reference whose cells are not initialised; fails on a negative size and
\* when the allocation fails, and then leaves arr as it was ({0})
fx_make_arr(h, size, elemsize, g, oom) ==
    IF size < 0
    THEN [status |-> FX_EXN_SizeError, heap |-> h, arr |-> fx_arr_t0]
    ELSE IF oom \/ FreeAddrs(h) = {}
    THEN [status |-> FX_EXN_OutOfMemError, heap |-> h, arr |-> fx_arr_t0]
    ELSE LET a == LeastFree(h)
         IN  [status |-> FX_OK,
              heap |-> [h EXCEPT ![a] = [refs |-> 1, elemsize |-> elemsize,
                                         fill |-> IF size > 0 THEN g ELSE 0,
                                         over |-> NoCells]],
              arr |-> [rc |-> a, size |-> size]]

\* fx_copy_arr(src, dst): dst refers to the block of src, which gains a reference
fx_copy_arr(h, src) ==
    IF src.rc = 0 THEN h ELSE [h EXCEPT ![src.rc].refs = @ + 1]

\* fx_free_arr(arr): drops one reference and releases the block with the last
fx_free_arr(h, arr) ==
    IF arr.rc = 0 THEN h
    ELSE IF h[arr.rc].refs = 1 THEN [h EXCEPT ![arr.rc] = FreeBlock]
    ELSE [h EXCEPT ![arr.rc].refs = @ - 1]

\* FX_FREE_ARR(arr): if(!(arr)->rc) ; else fx_free_arr(arr)
FX_FREE_ARR(h, arr) == IF arr.rc = 0 THEN h ELSE fx_free_arr(h, arr)

----------------------------------------------------------------------------
(* Hashmap.index_t: the functions of Hashmap.c *)

\* (uint8_t)x and (uint16_t)x; reading a cell of that type and widening it to int_
U8(x) == x % 256
U16(x) == x % 65536

\* fault: the first bound taken strictly (size_0 < 256)
SelectTier_strict(size_0) ==
    IF size_0 < 256 THEN 1 ELSE IF size_0 <= 65536 THEN 2 ELSE 3

\* the branch makeindex takes for a size, as the tag of the variant it builds
SelectTier(size_0) ==
    IF size_0 <= 256 THEN 1 ELSE IF size_0 <= 65536 THEN 2 ELSE 3

\* sizeof(uint8_t), sizeof(uint16_t), sizeof(int_) of the three branches
ElemSize(tag) == IF tag = 1 THEN 1 ELSE IF tag = 2 THEN 2 ELSE 8

\* the variant constructors: set the tag, share the array
IndexByte(h, arg0) == [heap |-> fx_copy_arr(h, arg0), value |-> [tag |-> 1, u |-> arg0]]
IndexWord(h, arg0) == [heap |-> fx_copy_arr(h, arg0), value |-> [tag |-> 2, u |-> arg0]]
IndexLarge(h, arg0) == [heap |-> fx_copy_arr(h, arg0), value |-> [tag |-> 3, u |-> arg0]]

\* fault: the zeroing loop left out
ZeroFill_skipped(h, arr) == h

\* for (i = 0; i < size_0; i++, dstptr++) *dstptr = 0
ZeroFill(h, arr) ==
    IF arr.size > 0 THEN [h EXCEPT ![arr.rc].fill = 0, ![arr.rc].over = NoCells] ELSE h

\* for (i = 0; i < ni; i++, dstptr++) { x = ptr_tab[i]; *dstptr = x; }
CopyCells(h, tab, v) ==
    IF tab.size > 0
    THEN [h EXCEPT ![v.rc].fill = h[tab.rc].fill, ![v.rc].over = h[tab.rc].over]
    ELSE h

\* _fx_cleanup of makeindex: FX_FREE_ARR(&v_0); FX_FREE_ARR(&v_1); FX_FREE_ARR(&v_2)
makeindex_cleanup(h, v_0, v_1, v_2) ==
    FX_FREE_ARR(FX_FREE_ARR(FX_FREE_ARR(h, v_0), v_1), v_2)

\* makeindex(size_0, fx_result): [status, heap, written, result]; written says
\* whether *fx_result was assigned
makeindex(h, size_0, g, oom) ==
    LET tier == SelectTier(size_0)
        m == fx_make_arr(h, size_0, ElemSize(tier), g, oom)
        v_0 == IF tier = 1 THEN m.arr ELSE fx_arr_t0
        v_1 == IF tier = 2 THEN m.arr ELSE fx_arr_t0
        v_2 == IF tier = 3 THEN m.arr ELSE fx_arr_t0
        Cleanup(hh) == makeindex_cleanup(hh, v_0, v_1, v_2)
    IN  IF m.status # FX_OK
        THEN [status |-> m.status, heap |-> Cleanup(m.heap),
              written |-> FALSE, result |-> index_t0]
        ELSE LET h1 == ZeroFill(m.heap, m.arr)
                 c == IF tier = 1 THEN IndexByte(h1, v_0)
                      ELSE IF tier = 2 THEN IndexWord(h1, v_1)
                      ELSE IndexLarge(h1, v_2)
             IN  [status |-> FX_OK, heap |-> Cleanup(c.heap),
                  written |-> TRUE, result |-> c.value]

\* fault: an unmatched tag answered with size 0 instead of FX_EXN_NoMatchError
size_default(idx_0) ==
    [status |-> FX_OK, written |-> TRUE,
     value |-> IF idx_0.tag = 1 \/ idx_0.tag = 2 \/ idx_0.tag = 3
               THEN FX_ARR_SIZE(idx_0.u) ELSE 0]

\* size(idx_0, fx_result): [status, written, value]
size(idx_0) ==
    LET tag_0 == idx_0.tag
    IN  IF tag_0 = 1 \/ tag_0 = 2 \/ tag_0 = 3
        THEN [status |-> FX_OK, written |-> TRUE, value |-> FX_ARR_SIZE(idx_0.u)]
        ELSE [status |-> FX_EXN_NoMatchError, written |-> FALSE, value |-> 0]

\* fault: the upper bound of set's check off by one (i_0 <= size)
set_chkidx_inclusive(idx_0, i_0) == 0 <= i_0 /\ i_0 <= idx_0.u.size

\* the bounds check of get and set: FX_CHKIDX(FX_CHKIDX1(idx_0->u.X, 0, i_0), _fx_catch)
get_chkidx(idx_0, i_0) == FX_CHKIDX1(idx_0.u, i_0)
set_chkidx(idx_0, i_0) == FX_CHKIDX1(idx_0.u, i_0)

\* fault: the cells read as signed (int8_t, int16_t) and sign-extended
get_widen_signed(tag_0, x) ==
    IF tag_0 = 1 THEN (IF U8(x) >= 128 THEN U8(x) - 256 ELSE U8(x))
    ELSE IF tag_0 = 2 THEN (IF U16(x) >= 32768 THEN U16(x) - 65536 ELSE U16(x))
    ELSE x

\* what get hands back for a cell of the variant
get_widen(tag_0, x) ==
    IF tag_0 = 1 THEN U8(x) ELSE IF tag_0 = 2 THEN U16(x) ELSE x

\* what set stores for newval_0 in a cell of the variant
set_narrow(tag_0, newval_0) ==
    IF tag_0 = 1 THEN U8(newval_0) ELSE IF tag_0 = 2 THEN U16(newval_0) ELSE newval_0

\* fault: set writes the first cell whatever the index
set_cell_first(i_0) == 0

\* the cell set writes
set_cell(i_0) == i_0

\* get(idx_0, i_0, fx_result): [status, written, value]
get(h, idx_0, i_0) ==
    LET tag_0 == idx_0.tag
    IN  IF tag_0 = 1 \/ tag_0 = 2 \/ tag_0 = 3
        THEN IF get_chkidx(idx_0, i_0)
             THEN [status |-> FX_OK, written |-> TRUE,
                   value |-> get_widen(tag_0, Cell(h, idx_0.u, i_0))]
             ELSE [status |-> FX_EXN_OutOfRangeError, written |-> FALSE, value |-> 0]
        ELSE [status |-> FX_EXN_NoMatchError, written |-> FALSE, value |-> 0]

\* set(idx_0, i_0, newval_0): [status, heap]
set(h, idx_0, i_0, newval_0) ==
    LET tag_0 == idx_0.tag
    IN  IF tag_0 = 1 \/ tag_0 = 2 \/ tag_0 = 3
        THEN IF set_chkidx(idx_0, i_0)
             THEN [status |-> FX_OK,
                   heap |-> PutCell(h, idx_0.u, set_cell(i_0), set_narrow(tag_0, newval_0))]
             ELSE [status |-> FX_EXN_OutOfRangeError, heap |-> h]
        ELSE [status |-> FX_EXN_NoMatchError, heap |-> h]

\* fault: copy hands the source's array, tab, to the variant constructor
copy_arg_shared(tab, v) == tab

\* the array copy hands to the variant constructor: the new one, v
copy_arg(tab, v) == v

\* fault: the reference copy took on the source is not released
copy_catch_leak(h, tab, v) == FX_FREE_ARR(h, v)

\* _fx_catch of copy: FX_FREE_ARR(&tab); FX_FREE_ARR(&v)
copy_catch(h, tab, v) == FX_FREE_ARR(FX_FREE_ARR(h, tab), v)

\* copy(idx_0, fx_result): [status, heap, written, result]
copy(h, idx_0, g, oom) ==
    LET tag_0 == idx_0.tag
    IN  IF tag_0 = 1 \/ tag_0 = 2 \/ tag_0 = 3
        THEN LET tab == idx_0.u
                 h0 == fx_copy_arr(h, idx_0.u)
                 ni == FX_ARR_SIZE(tab)
                 m == fx_make_arr(h0, ni, ElemSize(tag_0), g, oom)
                 v == m.arr
                 Catch(hh) == copy_catch(hh, tab, v)
             IN  IF m.status # FX_OK
                 THEN [status |-> m.status, heap |-> Catch(m.heap),
                       written |-> FALSE, result |-> index_t0]
                 ELSE LET h1 == CopyCells(m.heap, tab, v)
                          c == IF tag_0 = 1 THEN IndexByte(h1, copy_arg(tab, v))
                               ELSE IF tag_0 = 2 THEN IndexWord(h1, copy_arg(tab, v))
                               ELSE IndexLarge(h1, copy_arg(tab, v))
                      IN  [status |-> FX_OK, heap |-> Catch(c.heap),
                           written |-> TRUE, result |-> c.value]
        ELSE [status |-> FX_EXN_NoMatchError, heap |-> h,
              written |-> FALSE, result |-> index_t0]

\* _fx_free_N16Hashmap__index_t(dst): [heap, value]; returns void
fx_free_index_t(h, dst) ==
    [heap |-> IF dst.tag = 1 \/ dst.tag = 2 \/ dst.tag = 3 THEN fx_free_arr(h, dst.u) ELSE h,
     value |-> [tag |-> 0,
                u |-> IF dst.tag = 1 \/ dst.tag = 2 \/ dst.tag = 3 THEN fx_arr_t0 ELSE dst.u]]

\* _fx_copy_N16Hashmap__index_t(src, dst): [heap, value]; returns void
fx_copy_index_t(h, src) ==
    [heap |-> IF src.tag = 1 \/ src.tag = 2 \/ src.tag = 3 THEN fx_copy_arr(h, src.u) ELSE h,
     value |-> [tag |-> src.tag, u |-> src.u]]

----------------------------------------------------------------------------
(* The caller of the index container: one action per call *)

Call(op, s, d, i, v, st) ==
    [op |-> op, slot |-> s, dst |-> d, i |-> i, v |-> v, status |-> st]
NoRes == [written |-> FALSE, value |-> 0]

HInit ==
    /\ heap = [a \in Addrs |-> FreeBlock]
    /\ idx = [s \in Slots |-> index_t0]
    /\ res = NoRes
    /\ last = Call("none", "", "", 0, 0, FX_OK)
    /\ dup = <<>>

\* makeindex(size_0, &idx[s]); the result location is a container not yet built
MakeIndex(s, size_0) ==
    /\ idx[s].tag = 0
    /\ \E g \in Garbage, oom \in BOOLEAN :
          LET r == makeindex(heap, size_0, g, oom)
          IN  /\ heap' = r.heap
              /\ idx' = IF r.written THEN [idx EXCEPT ![s] = r.result] ELSE idx
              /\ last' = Call("makeindex", s, "", 0, size_0, r.status)
    /\ res' = NoRes
    /\ dup' = dup

Size(s) ==
    LET r == size(idx[s])
    IN  /\ res' = [written |-> r.written, value |-> r.value]
        /\ last' = Call("size", s, "", 0, 0, r.status)
        /\ UNCHANGED <<heap, idx, dup>>

Get(s, i) ==
    LET r == get(heap, idx[s], i)
    IN  /\ res' = [written |-> r.written, value |-> r.value]
        /\ last' = Call("get", s, "", i, 0, r.status)
        /\ UNCHANGED <<heap, idx, dup>>

Set(s, i, v) ==
    LET r == set(heap, idx[s], i, v)
    IN  /\ heap' = r.heap
        /\ res' = NoRes
        /\ last' = Call("set", s, "", i, v, r.status)
        /\ UNCHANGED <<idx, dup>>

\* copy(&idx[s], &idx[d]); the result location is a container not yet built
Copy(s, d) ==
    /\ s # d
    /\ idx[d].tag = 0
    /\ \E g \in Garbage, oom \in BOOLEAN :
          LET r == copy(heap, idx[s], g, oom)
          IN  /\ heap' = r.heap
              /\ idx' = IF r.written THEN [idx EXCEPT ![d] = r.result] ELSE idx
              /\ last' = Call("copy", s, d, 0, 0, r.status)
              /\ dup' = IF r.written THEN <<s, d>> ELSE dup
    /\ res' = NoRes

\* the owner releases idx[s]
FreeIndex(s) ==
    LET r == fx_free_index_t(heap, idx[s])
    IN  /\ heap' = r.heap
        /\ idx' = [idx EXCEPT ![s] = r.value]
        /\ res' = NoRes
        /\ last' = Call("free", s, "", 0, 0, NoStatus)
        /\ dup' = IF dup # <<>> /\ (dup[1] = s \/ dup[2] = s) THEN <<>> ELSE dup

\* idx[d] = idx[s]: the value copy of the language, which shares the array
CopyIndex(s, d) ==
    /\ s # d
    /\ idx[d].tag = 0
    /\ LET r == fx_copy_index_t(heap, idx[s])
       IN  /\ heap' = r.heap
           /\ idx' = [idx EXCEPT ![d] = r.value]
           /\ last' = Call("copyhelper", s, d, 0, 0, NoStatus)
    /\ res' = NoRes
    /\ dup' = dup

HNext ==
    \/ \E s \in Slots, n \in Sizes : MakeIndex(s, n) /\ UNCHANGED fvars
    \/ \E s \in Slots : Size(s) /\ UNCHANGED fvars
    \/ \E s \in Slots : \E i \in Probes(idx[s].u.size) : Get(s, i) /\ UNCHANGED fvars
    \/ \E s \in Slots : \E i \in Probes(idx[s].u.size), v \in Values :
          Set(s, i, v) /\ UNCHANGED fvars
    \/ \E s \in Slots, d \in Slots : Copy(s, d) /\ UNCHANGED fvars
    \/ \E s \in Slots : FreeIndex(s) /\ UNCHANGED fvars
    \/ \E s \in Slots, d \in Slots : CopyIndex(s, d) /\ UNCHANGED fvars

NoFrees == [alloc |-> 0, freed |-> 0, double |-> 0]

FIdle ==
    /\ stream = <<>> /\ pos = 0 /\ pos0 = 0 /\ pc = "idle"
    /\ bufsz = 0 /\ bufofs = 0 /\ buf = <<>> /\ onheap = FALSE /\ cap = 0
    /\ blocks = 0 /\ frees = NoFrees
    /\ fstatus = FX_OK /\ str = <<>>

Init == HInit /\ FIdle
Next == HNext
Spec == Init /\ [][Next]_vars

----------------------------------------------------------------------------
(* fx_fgets of file.impl.h *)

\* enum { FX_FILE_ROW_BUFSIZE=128 }
FX_FILE_ROW_BUFSIZE == 128

\* number of segments (runs of characters ended by a newline or a NUL) of a file
MaxSegs == 2

\* the characters of a file: a letter, the newline, the NUL character
CH == "a"
NL == "nl"
NUL == "nul"

\* the letters before the end of a segment: with the newline as 127th and as
\* 191st character (the last one the first and the second read can hold),
\* one more than that, and short ones
BodyLens == {0, 1, 126, 127, 190, 200}
Seg(n, t) == [k \in 1..n |-> CH] \o t
RECURSIVE StreamsOf(_)
StreamsOf(k) ==
    IF k = 0 THEN {<<>>}
    ELSE {Seg(n, <<>>) : n \in BodyLens}
         \cup {Seg(n, <<t>>) \o st : n \in BodyLens, t \in {NL, NUL}, st \in StreamsOf(k - 1)}
Streams == StreamsOf(MaxSegs)

SetMin(S) == CHOOSE x \in S : \A y \in S : x <= y

\* fault: the read is given the whole rest of the buffer and one byte more
fgets_count_over(bsz, bofs) == bsz - bofs + 1

\* int count = bufsz - bufofs; if(count > INT_MAX) count = INT_MAX;
fgets_count(bsz, bofs) ==
    IF bsz - bofs > 2147483647 THEN 2147483647 ELSE bsz - bofs

\* fgets(buf + bufofs, count, f) of the C library: the characters it reads, at
\* most count - 1, up to and including the first newline or up to the end
fgets_chunk(st, p, count) ==
    LET avail == Len(st) - p
        lim == IF count - 1 < avail THEN count - 1 ELSE avail
        nls == {k \in 1..lim : st[p + k] = NL}
        n == IF nls = {} THEN (IF lim < 0 THEN 0 ELSE lim) ELSE SetMin(nls)
    IN  SubSeq(st, p + 1, p + n)

\* fgets returns NULL on a read error, and at the end of the file when it read
\* nothing (with count = 1 it reads nothing and returns the empty string)
fgets_null(st, p, count, ioerr) ==
    ioerr \/ count <= 0 \/ (count > 1 /\ Len(st) - p <= 0)

\* feof(f) after fgets returned NULL
feof(st, p, ioerr) == ~ioerr /\ Len(st) - p <= 0

\* strlen(ptr): the characters before the first NUL
strlen(chunk) ==
    LET zs == {k \in 1..Len(chunk) : chunk[k] = NUL}
    IN  IF zs = {} THEN Len(chunk) ELSE SetMin(zs) - 1

\* if(blocksz < count-1) break;
line_done(blocksz, count) == blocksz < count - 1

\* if(bufsz - bufofs < 16)
need_grow(bsz, bofs) == bsz - bofs < 16

\* bufsz = bufsz*3/2
grow(bsz) == (bsz * 3) \div 2

\* one pass of the for(;;) loop of fx_fgets.  ioerr: the read fails; oom:
\* fx_realloc fails.  brk: the loop is left.  cap: the bytes of the buffer
\* buf points to.  alloc, freed: heap buffers obtained and released by
\* fx_realloc in this pass.
fgets_iter(st, p, bsz, bofs, b, heapbuf, bcap, status, ioerr, oom) ==
    LET count == fgets_count(bsz, bofs)
        same == [pos |-> p, bufsz |-> bsz, bufofs |-> bofs, buf |-> b,
                 onheap |-> heapbuf, cap |-> bcap, status |-> status, brk |-> TRUE,
                 alloc |-> 0, freed |-> 0]
    IN  IF fgets_null(st, p, count, ioerr)
        THEN [same EXCEPT !.status = IF feof(st, p, ioerr) THEN status ELSE FX_EXN_IOError]
        ELSE LET chunk == fgets_chunk(st, p, count)
                 blocksz == strlen(chunk)
                 bofs1 == bofs + blocksz
                 read == [same EXCEPT !.pos = p + Len(chunk), !.bufofs = bofs1,
                                      !.buf = b \o SubSeq(chunk, 1, blocksz)]
             IN  IF line_done(blocksz, count) THEN read
                 ELSE IF need_grow(bsz, bofs1)
                 THEN IF oom
                      THEN [read EXCEPT !.bufsz = grow(bsz),
                                        !.status = FX_EXN_OutOfMemError]
                      ELSE [read EXCEPT !.bufsz = grow(bsz), !.onheap = TRUE,
                                        !.cap = grow(bsz), !.brk = FALSE, !.alloc = 1,
                                        !.freed = IF heapbuf THEN 1 ELSE 0]
                 ELSE [read EXCEPT !.brk = FALSE]

\* fx_cstr2str(buf, bufofs, str): the first bufofs characters of buf
fx_cstr2str(b, bofs) == SubSeq(b, 1, bofs)

FgetsInit ==
    /\ heap = [a \in Addrs |-> FreeBlock]
    /\ idx = [s \in Slots |-> index_t0]
    /\ res = NoRes
    /\ last = Call("none", "", "", 0, 0, FX_OK)
    /\ dup = <<>>
    /\ stream \in Streams
    /\ pos = 0 /\ pos0 = 0 /\ pc = "call"
    /\ bufsz = 0 /\ bufofs = 0 /\ buf = <<>> /\ onheap = FALSE /\ cap = 0
    /\ blocks = 0 /\ frees = NoFrees
    /\ fstatus = FX_OK /\ str = <<>>

\* fx_fgets is called at the current position of the file: its locals
FgetsEnter ==
    /\ pc \in {"call", "done"}
    /\ pos0' = pos
    /\ bufsz' = FX_FILE_ROW_BUFSIZE /\ bufofs' = 0 /\ buf' = <<>> /\ onheap' = FALSE
    /\ cap' = FX_FILE_ROW_BUFSIZE
    /\ frees' = NoFrees
    /\ fstatus' = FX_OK /\ str' = <<>>
    /\ pc' = "loop"
    /\ UNCHANGED <<stream, pos, blocks>>

FgetsIter ==
    /\ pc = "loop"
    /\ \E ioerr \in BOOLEAN, oom \in BOOLEAN :
          LET r == fgets_iter(stream, pos, bufsz, bufofs, buf, onheap, cap, fstatus,
                              ioerr, oom)
          IN  /\ pos' = r.pos /\ bufsz' = r.bufsz /\ bufofs' = r.bufofs
              /\ buf' = r.buf /\ onheap' = r.onheap /\ cap' = r.cap
              /\ fstatus' = r.status
              /\ blocks' = blocks + r.alloc - r.freed
              /\ frees' = [frees EXCEPT !.alloc = @ + r.alloc, !.freed = @ + r.freed]
              /\ pc' = IF r.brk THEN "exit" ELSE "loop"
    /\ UNCHANGED <<stream, pos0, str>>

\* after the loop: the terminator, the conversion (which may fail to
\* allocate), the release of a heap buffer
FgetsExit ==
    /\ pc = "exit"
    /\ \E oom \in BOOLEAN :
          IF fstatus = FX_OK
          THEN IF oom THEN fstatus' = FX_EXN_OutOfMemError /\ str' = str
               ELSE fstatus' = FX_OK /\ str' = fx_cstr2str(buf, bufofs)
          ELSE UNCHANGED <<fstatus, str>>
    /\ IF onheap
       THEN /\ blocks' = IF blocks > 0 THEN blocks - 1 ELSE blocks
            /\ frees' = IF blocks > 0 THEN [frees EXCEPT !.freed = @ + 1]
                        ELSE [frees EXCEPT !.double = @ + 1]
       ELSE UNCHANGED <<blocks, frees>>
    /\ pc' = "done"
    /\ UNCHANGED <<stream, pos, pos0, bufsz, bufofs, buf, onheap, cap>>

FNext ==
    \/ FgetsEnter /\ UNCHANGED hvars
    \/ FgetsIter /\ UNCHANGED hvars
    \/ FgetsExit /\ UNCHANGED hvars

FgetsSpec == FgetsInit /\ [][FNext]_vars

----------------------------------------------------------------------------
(* Properties of the index container, checked under Spec *)

IsTier(c) == c.tag = 1 \/ c.tag = 2 \/ c.tag = 3
Got(x) == [status |-> FX_OK, written |-> TRUE, value |-> x]
OtherSlot(s) == CHOOSE o \in Slots : o # s

\* every cell but cell i of array arr reads the same in heaps h1 and h2: a
\* cell listed in neither block reads the block's fill value
SameCellsExcept(h1, h2, arr, i) ==
    /\ h1[arr.rc].fill = h2[arr.rc].fill
    /\ \A j \in (DOMAIN h1[arr.rc].over \cup DOMAIN h2[arr.rc].over) \ {i} :
          Cell(h1, arr, j) = Cell(h2, arr, j)

\* C1: a successful makeindex(size) builds the Narrow variant (tag 1, 1-byte
\* cells) for size <= 256, the Medium one (tag 2, 2-byte cells) for
\* 256 < size <= 65536 and the Wide one (tag 3, word cells) above, and size()
\* of the container is the requested size.
C1_TierSelection ==
    (last.op = "makeindex" /\ last.status = FX_OK) =>
        LET c == idx[last.slot]
            n == last.v
        IN  /\ n <= 256 => (c.tag = 1 /\ heap[c.u.rc].elemsize = 1)
            /\ (256 < n /\ n <= 65536) => (c.tag = 2 /\ heap[c.u.rc].elemsize = 2)
            /\ n > 65536 => (c.tag = 3 /\ heap[c.u.rc].elemsize = 8)
            /\ size(c) = Got(n)

C1_Witness ==
    /\ last.op = "makeindex" /\ last.status = FX_OK /\ last.v = 65537
    /\ idx[last.slot].tag = 3
    /\ \E s \in Slots : idx[s].tag = 2 /\ idx[s].u.size = 65536

\* C2: right after a successful set(i, v), get(i) succeeds and returns
\* v mod 256 on Narrow, v mod 65536 on Medium (never negative) and v itself on
\* Wide.
C2_SetGetRoundTrip ==
    (last.op = "set" /\ last.status = FX_OK) =>
        LET c == idx[last.slot]
            r == get(heap, c, last.i)
        IN  /\ r.status = FX_OK /\ r.written
            /\ c.tag = 1 => (r.value = last.v % 256 /\ r.value >= 0)
            /\ c.tag = 2 => (r.value = last.v % 65536 /\ r.value >= 0)
            /\ c.tag = 3 => r.value = last.v

C2_Witness ==
    /\ last.op = "set" /\ last.status = FX_OK /\ last.v = -1
    /\ idx[last.slot].tag = 1
    /\ get(heap, idx[last.slot], last.i) = Got(255)

\* C3: get(i) and set(i, v) with i < 0 or i >= length, on a container of any
\* tier (the empty one included), fail with FX_EXN_OutOfRangeError; get writes
\* no result, and no cell, block or container changes.
C3_Step ==
    (/\ last'.op \in {"get", "set"}
     /\ IsTier(idx[last'.slot])
     /\ (last'.i < 0 \/ last'.i >= idx[last'.slot].u.size))
    => /\ last'.status = FX_EXN_OutOfRangeError
       /\ ~res'.written
       /\ heap' = heap
       /\ idx' = idx
\* C3: every call satisfies C3_Step: an out-of-range get or set fails and changes nothing.
C3_BoundsEnforced == [][C3_Step]_vars

C3_Witness ==
    /\ last.op = "set" /\ last.status = FX_EXN_OutOfRangeError
    /\ IsTier(idx[last.slot])
    /\ last.i = idx[last.slot].u.size /\ last.i > 256
    /\ DOMAIN heap[idx[last.slot].u.rc].over # {}

\* C4: a successful b = copy(a) has the tag, the length and the cells of a in a
\* block of its own; from then on a and b keep the same length, share no
\* block, and a set on one changes no get on the other.
C4_State ==
    dup # <<>> =>
        LET a == idx[dup[1]]
            b == idx[dup[2]]
        IN  /\ IsTier(a) /\ a.tag = b.tag
            /\ size(a) = size(b)
            /\ a.u.rc # b.u.rc
            /\ (last.op = "copy" /\ last.status = FX_OK) =>
                  /\ heap[b.u.rc].elemsize = heap[a.u.rc].elemsize
                  /\ \A i \in 0..(a.u.size - 1) : get(heap, b, i) = get(heap, a, i)
C4_Step ==
    (dup # <<>> /\ dup' = dup /\ last'.op = "set") =>
        LET o == OtherSlot(last'.slot)
        IN  /\ idx'[o] = idx[o]
            /\ heap'[idx[o].u.rc] = heap[idx[o].u.rc]
            /\ \A i \in Probes(idx[o].u.size) : get(heap', idx'[o], i) = get(heap, idx[o], i)
\* C4: a duplicate always satisfies C4_State, and every set satisfies C4_Step.
C4_DuplicateIndependent == []C4_State /\ [][C4_Step]_vars

C4_Witness ==
    /\ dup # <<>>
    /\ last.op = "set" /\ last.status = FX_OK /\ last.slot = dup[2]
    /\ \E i \in Probes(idx[dup[1]].u.size) :
          /\ get(heap, idx[dup[1]], i).status = FX_OK
          /\ get(heap, idx[dup[1]], i).value # 0
          /\ get(heap, idx[dup[2]], i) # get(heap, idx[dup[1]], i)

\* C5 as claimed: every operation that looks at the tag (size, get, set, copy
\* and the copy and free helpers) fails with FX_EXN_NoMatchError on a tag
\* outside {1, 2, 3}, writes no result and changes no state.
C5_Original_Step ==
    (/\ last'.op \in {"size", "get", "set", "copy", "free", "copyhelper"}
     /\ ~IsTier(idx[last'.slot]))
    => /\ last'.status = FX_EXN_NoMatchError
       /\ ~res'.written
       /\ heap' = heap
       /\ idx' = idx
\* C5 as claimed: every call, the helpers included, satisfies C5_Original_Step.
C5_Original == [][C5_Original_Step]_vars

\* C5, amended: size, get, set and copy fail with FX_EXN_NoMatchError on a tag
\* outside {1, 2, 3}, write no result and change no state.  The free and copy
\* helpers return void and cannot fail: on such a tag free releases nothing
\* and leaves the tag 0, copy hands on the tag and the union as they are.
C5_Step ==
    /\ (/\ last'.op \in {"size", "get", "set", "copy"}
        /\ ~IsTier(idx[last'.slot]))
       => /\ last'.status = FX_EXN_NoMatchError
          /\ ~res'.written
          /\ heap' = heap
          /\ idx' = idx
    /\ (last'.op = "free" /\ ~IsTier(idx[last'.slot]))
       => /\ last'.status = NoStatus
          /\ heap' = heap
          /\ idx'[last'.slot].tag = 0
          /\ idx'[last'.slot].u = idx[last'.slot].u
    /\ (last'.op = "copyhelper" /\ ~IsTier(idx[last'.slot]))
       => /\ last'.status = NoStatus
          /\ heap' = heap
          /\ idx'[last'.dst] = idx[last'.slot]
\* C5, amended: every call satisfies C5_Step.
C5_NoMatchOnPublicOps == [][C5_Step]_vars

C5_Witness ==
    /\ last.op = "get" /\ last.status = FX_EXN_NoMatchError
    /\ ~IsTier(idx[last.slot])
    /\ IsTier(idx[OtherSlot(last.slot)])

\* C7: when the allocation fails in makeindex or copy, the call returns
\* FX_EXN_OutOfMemError, the result container is not written, and the heap is
\* as before the call: no block is left allocated, no reference is left on
\* the source, and the source's cells are unchanged.
C7_Step ==
    (last'.op \in {"makeindex", "copy"} /\ last'.status # FX_OK
        /\ last'.status # FX_EXN_NoMatchError /\ last'.status # FX_EXN_SizeError)
    => /\ last'.status = FX_EXN_OutOfMemError
       /\ idx' = idx
       /\ heap' = heap
\* C7: every call satisfies C7_Step: a failed allocation leaves heap and containers as they were.
C7_AllocFailure == [][C7_Step]_vars

C7_Witness ==
    /\ last.op = "copy" /\ last.status = FX_EXN_OutOfMemError
    /\ IsTier(idx[last.slot])
    /\ DOMAIN heap[idx[last.slot].u.rc].over # {}
    /\ FreeAddrs(heap) # {}

\* C8: right after a successful makeindex(size) with size > 0, get(i) succeeds
\* and returns 0 for every i in 0 .. size - 1.
C8_ZeroInitialised ==
    (last.op = "makeindex" /\ last.status = FX_OK /\ last.v > 0) =>
        \A i \in 0..(last.v - 1) : get(heap, idx[last.slot], i) = Got(0)

C8_Witness ==
    /\ last.op = "makeindex" /\ last.status = FX_OK /\ last.v = 65537
    /\ get(heap, idx[last.slot], 65536) = Got(0)

\* C9: get changes nothing; set changes at most cell i of its container and
\* nothing else; neither changes a container's tag or length; and the tag of
\* a container is always the tier its length belongs to.
C9_State ==
    \A s \in Slots :
        LET c == idx[s]
        IN  /\ c.tag = 1 => (0 <= c.u.size /\ c.u.size <= 256)
            /\ c.tag = 2 => (256 < c.u.size /\ c.u.size <= 65536)
            /\ c.tag = 3 => c.u.size > 65536
C9_Step ==
    /\ last'.op = "get" => (heap' = heap /\ idx' = idx)
    /\ last'.op = "set" =>
          LET c == idx[last'.slot]
          IN  /\ idx' = idx
              /\ \A s \in Slots : size(idx'[s]) = size(idx[s])
              /\ last'.status # FX_OK => heap' = heap
              /\ last'.status = FX_OK =>
                    /\ \A a \in Addrs : a # c.u.rc => heap'[a] = heap[a]
                    /\ heap'[c.u.rc].refs = heap[c.u.rc].refs
                    /\ heap'[c.u.rc].elemsize = heap[c.u.rc].elemsize
                    /\ SameCellsExcept(heap', heap, c.u, last'.i)
\* C9: every container satisfies C9_State, and every get and set satisfies C9_Step.
C9_Frame == []C9_State /\ [][C9_Step]_vars

C9_Witness ==
    /\ last.op = "set" /\ last.status = FX_OK /\ last.i = 0
    /\ idx[last.slot].tag = 2
    /\ get(heap, idx[last.slot], idx[last.slot].u.size - 1) = Got(4464)
    /\ get(heap, idx[last.slot], 0) = Got(65535)

----------------------------------------------------------------------------
(* Properties of fx_fgets, checked under FgetsSpec *)

\* the characters of st from offset p up to and including the first newline,
\* or up to the end of st when no newline follows
LineAt(st, p) ==
    LET nls == {k \in (p + 1)..Len(st) : st[k] = NL}
    IN  IF nls = {} THEN SubSeq(st, p + 1, Len(st)) ELSE SubSeq(st, p + 1, SetMin(nls))
HasNUL(st) == \E k \in 1..Len(st) : st[k] = NUL

\* C6: a successful fx_fgets on a file of text (no NUL character) at any
\* offset returns exactly the characters from that offset up to and including
\* the first newline, or up to the end of the file, and consumes no character
\* after that newline.
C6_ReadsOneLine ==
    (pc = "done" /\ fstatus = FX_OK /\ ~HasNUL(stream)) =>
        /\ str = LineAt(stream, pos0)
        /\ pos = pos0 + Len(str)

\* C10: at the start of every pass of the loop and at its exit
\* 0 <= bufofs < bufsz, and bufofs is inside the buffer buf points to, so every
\* read gets a positive count and the terminator is written in bounds; bufsz
\* is 128 with the stack buffer, and changes in the loop only by the factor
\* 3/2 when fewer than 16 bytes remain; and when fx_fgets returns, every heap
\* buffer it obtained was released exactly once.
C10_State ==
    /\ pc = "loop" =>
          /\ 0 <= bufofs /\ bufofs < bufsz
          /\ fgets_count(bufsz, bufofs) > 0
          /\ bufsz = cap
          /\ ~onheap => bufsz = 128
          /\ blocks = (IF onheap THEN 1 ELSE 0)
    /\ pc = "exit" =>
          /\ 0 <= bufofs /\ bufofs < bufsz /\ bufofs < cap
          /\ fstatus = FX_OK => bufsz = cap
          /\ blocks = (IF onheap THEN 1 ELSE 0)
    /\ pc = "done" =>
          /\ blocks = 0
          /\ frees.freed = frees.alloc
          /\ frees.double = 0
C10_Step ==
    (pc = "loop" /\ bufsz' # bufsz) =>
        /\ 2 * bufsz' <= 3 * bufsz /\ 3 * bufsz < 2 * bufsz' + 2
        /\ bufsz - bufofs' < 16
\* C10: fx_fgets always satisfies C10_State, and every pass of its loop C10_Step.
C10_BufferBounds == []C10_State /\ [][C10_Step]_vars

C10_Witness ==
    /\ pc = "done" /\ fstatus = FX_OK
    /\ frees.alloc = 2 /\ frees.freed = 2
    /\ bufsz = 288 /\ bufofs = 201

====
